---------------------------- MODULE Spec2Model ----------------------------
(***************************************************************************)
(* Model of src/MongoDBTransaction.ts: class Transaction, a wrapper that   *)
(* runs an ordered list of CREATE / UPDATE / DELETE operations inside one  *)
(* driver session and commits or aborts it.                                *)
(*                                                                         *)
(* The driver (MongoClient, ClientSession, Collection) is the external     *)
(* collaborator.  Every driver call that returns a promise is modelled by  *)
(* the step that issues it and by two steps that settle it (resolve or     *)
(* reject); a call of createTransaction moves only at the places where the *)
(* code awaits.  insertOne / updateOne / deleteOne are NOT awaited by the  *)
(* code (lines 109, 131, 152), so their promises settle on their own and   *)
(* no continuation of the call is attached to them.                        *)
(***************************************************************************)
EXTENDS Naturals, Sequences, FiniteSets

\* ------------------------------------------------------------------ bounds
NumCalls == 2        \* createTransaction invocations on the shared instance
MaxOps == 2          \* operations in one operations array
MaxCollectors == 2   \* collectors in one operation
MaxWrites == 2       \* write items handed to the instance over all invocations

Calls == 1..NumCalls
Sessions == 1..NumCalls

\* ------------------------------------------------------------- data model
\* enum OperationType
Create == "CREATE"
Update == "UPDATE"
Delete == "DELETE"
OperationType == {Create, Update, Delete}

\* An optional field that is not given reads as undefined.
Undefined == "undefined"

\* type Collector, with data: CollectionData (index or insert is required, the
\* other is optional)
Collector ==
    { [collectionName |-> "User",   data |-> [index |-> Undefined, insert |-> "{name:Ann}"]],
      [collectionName |-> "Orphan", data |-> [index |-> "{id:missing}", insert |-> Undefined]] }

SeqsUpTo(S, n) == UNION { [1..k -> S] : k \in 0..n }

\* type Operation (the operations tried carry at least one collector)
Operation ==
    [operationType : OperationType,
     collectors : SeqsUpTo(Collector, MaxCollectors) \ {<< >>}]

\* Operations as JavaScript may pass them at run time: the tag may also be a string
\* that is none of the enum's.
UntypedOperation ==
    [operationType : OperationType \cup {"UPSERT"},
     collectors : SeqsUpTo(Collector, MaxCollectors) \ {<< >>}]

\* The operations array of the sample call in the source: one CREATE operation with
\* the one collector { collectionName: 'User', data: { index: {}, insert: {} } }.
SampleOperations ==
    { << [ operationType |-> Create,
           collectors |-> << [ collectionName |-> "User",
                               data |-> [index |-> "{}", insert |-> "{}"] ] >> ] >> }

DbNames == {"shop"}

\* The mongodbUri arguments tried.
Uris == {"mongodb://a", "mongodb://b"}

\* The number of write items (collectors) of an operations array.
RECURSIVE NumItems(_)
NumItems(ops) ==
    IF ops = << >> THEN 0 ELSE Len(Head(ops).collectors) + NumItems(Tail(ops))


\* ------------------------------------------------------------------ state
VARIABLES
    pc,            \* where each createTransaction call stands (its pending await)
    dbName,        \* the call's dbName argument
    operations,    \* the call's operations argument
    nextOp,        \* position of the for-await loop of line 75 in operations
    session,       \* the call's local `session` (0: none yet)
    error,         \* the call's caught `error` of line 89
    result,        \* how the call's promise settled
    sessionCount,  \* sessions the client has started
    txn,           \* state of each session's transaction at the backend
    writes,        \* the insertOne/updateOne/deleteOne calls each call has issued
    staged,        \* per session: writes applied inside its open transaction
    visible,       \* writes whose effect is committed in the database
    commitOn,      \* session each call invoked commitTransaction on (0: not invoked)
    abortOn,       \* session each call invoked abortTransaction on (0: not invoked)
    unsettledAtCommit, \* writes of the call not yet resolved when it invoked commit
    firstFailure,  \* the first driver failure that occurred during the call
    atReturn,      \* what held at the moment the call returned
    made,          \* per call: how often it made each driver call, and how often
                   \* commitTransaction / abortTransaction succeeded for it
    instance,      \* the static Transaction.instance (0: not set)
    clients,       \* the URIs of the MongoClients constructed, in order
    got,           \* the instance getInstance returned to each call (0: none yet)
    firstUri       \* the URI passed to the first getInstance call

vars == << pc, dbName, operations, nextOp, session, error, result, sessionCount,
           txn, writes, staged, visible, commitOn, abortOn, unsettledAtCommit,
           firstFailure, atReturn, made, instance, clients, got, firstUri >>

NoError == "none"

\* No driver call made yet.
NoCalls ==
    [ connect |-> 0, startTransaction |-> 0, commit |-> 0, committed |-> 0,
      abort |-> 0, aborted |-> 0 ]
Returned(c) == pc[c] \in {"resolved", "rejected"}

\* Indices of the call's issued writes with a given status.
WithStatus(c, st) == { k \in 1..Len(writes[c]) : writes[c][k].status = st }
InFlight(c) == WithStatus(c, "inflight")
Failed(c) == WithStatus(c, "failed")
Resolved(c) == WithStatus(c, "ok")

\* The call's writes that are committed in the database.
VisibleOf(c) == { k \in 1..Len(writes[c]) : << c, k >> \in visible }

\* Write items handed to the instance by the calls 1..n made so far.
RECURSIVE ItemsHanded(_)
ItemsHanded(n) == IF n = 0 THEN 0 ELSE NumItems(operations[n]) + ItemsHanded(n - 1)

Init ==
    /\ pc = [c \in Calls |-> "idle"]
    /\ dbName = [c \in Calls |-> "shop"]
    /\ operations = [c \in Calls |-> << >>]
    /\ nextOp = [c \in Calls |-> 1]
    /\ session = [c \in Calls |-> 0]
    /\ error = [c \in Calls |-> NoError]
    /\ result = [c \in Calls |-> "pending"]
    /\ sessionCount = 0
    /\ txn = [s \in Sessions |-> "none"]
    /\ writes = [c \in Calls |-> << >>]
    /\ staged = [s \in Sessions |-> {}]
    /\ visible = {}
    /\ commitOn = [c \in Calls |-> 0]
    /\ abortOn = [c \in Calls |-> 0]
    /\ unsettledAtCommit = [c \in Calls |-> {}]
    /\ firstFailure = [c \in Calls |-> NoError]
    /\ atReturn = [c \in Calls |-> [txn |-> "none", visible |-> {}, failed |-> {}]]
    /\ made = [c \in Calls |-> NoCalls]
    /\ instance = 0
    /\ clients = << >>
    /\ got = [c \in Calls |-> 0]
    /\ firstUri = Undefined


\* ------------------------------------------------- the code's own helpers
\* { ...x }: spreading undefined gives the empty object.
Spread(x) == IF x = Undefined THEN "{}" ELSE x

\* startSession() handing out one session kept on the instance.
SharedSession(count) == 1

\* connection.startSession(): every call gives a session of its own.
StartSession(count) == count + 1

\* The driver calls made by create(): one insertOne per collector, in array order.
create(db, collectors, sess) ==
    [ k \in 1..Len(collectors) |->
        [ kind |-> "insertOne", db |-> db,
          collection |-> collectors[k].collectionName,
          filter |-> Undefined,
          doc |-> Spread(collectors[k].data.insert),
          session |-> sess, col |-> k ] ]

\* update() with its loop running from the last collector to the first.
updateBackwards(db, collectors, sess) ==
    [ k \in 1..Len(collectors) |->
        [ kind |-> "updateOne", db |-> db,
          collection |-> collectors[Len(collectors) + 1 - k].collectionName,
          filter |-> Spread(collectors[Len(collectors) + 1 - k].data.index),
          doc |-> Spread(collectors[Len(collectors) + 1 - k].data.insert),
          session |-> sess, col |-> Len(collectors) + 1 - k ] ]

\* The driver calls made by update(): one updateOne(index, {$set: insert}) per collector.
update(db, collectors, sess) ==
    [ k \in 1..Len(collectors) |->
        [ kind |-> "updateOne", db |-> db,
          collection |-> collectors[k].collectionName,
          filter |-> Spread(collectors[k].data.index),
          doc |-> Spread(collectors[k].data.insert),
          session |-> sess, col |-> k ] ]

\* delete() leaving its loop after the first collector.
deleteFirstOnly(db, collectors, sess) ==
    [ k \in 1..1 |->
        [ kind |-> "deleteOne", db |-> db,
          collection |-> collectors[k].collectionName,
          filter |-> Spread(collectors[k].data.index),
          doc |-> Undefined,
          session |-> sess, col |-> k ] ]

\* The driver calls made by delete(): one deleteOne(index) per collector.
delete(db, collectors, sess) ==
    [ k \in 1..Len(collectors) |->
        [ kind |-> "deleteOne", db |-> db,
          collection |-> collectors[k].collectionName,
          filter |-> Spread(collectors[k].data.index),
          doc |-> Undefined,
          session |-> sess, col |-> k ] ]

\* The switch with a default branch that falls to create().
SwitchDefaultCreate(db, operation, sess) ==
    CASE operation.operationType = Update -> update(db, operation.collectors, sess)
      [] operation.operationType = Delete -> delete(db, operation.collectors, sess)
      [] OTHER -> create(db, operation.collectors, sess)

\* switch (operation.operationType): no default branch, another tag issues nothing.
Switch(db, operation, sess) ==
    CASE operation.operationType = Create -> create(db, operation.collectors, sess)
      [] operation.operationType = Update -> update(db, operation.collectors, sess)
      [] operation.operationType = Delete -> delete(db, operation.collectors, sess)
      [] OTHER -> << >>

\* A driver call just made: its promise is pending and nobody awaits it.
Pending(calls, op) ==
    [ k \in 1..Len(calls) |->
        [ kind |-> calls[k].kind, db |-> calls[k].db,
          collection |-> calls[k].collection, filter |-> calls[k].filter,
          doc |-> calls[k].doc, session |-> calls[k].session,
          op |-> op, col |-> calls[k].col, status |-> "inflight" ] ]

\* What held when call c returned, given the transaction state and the database then.
Snapshot(c, t, vis) ==
    [ txn |-> t,
      visible |-> { k \in 1..Len(writes[c]) : << c, k >> \in vis },
      failed |-> Failed(c) ]

First(old, new) == IF old = NoError THEN new ELSE old

\* getInstance() constructing a new Transaction on every call.
AlwaysConstruct(inst) == TRUE

\* `if (!Transaction.instance)`: the static instance is not set yet.
NotSet(inst) == inst = 0

\* Transaction.getInstance(mongodbUri): the static instance and the clients
\* constructed after the call; the constructor makes one MongoClient for the URI.
getInstance(mongodbUri) ==
    IF NotSet(instance)
    THEN [ instance |-> Len(clients) + 1, clients |-> Append(clients, mongodbUri) ]
    ELSE [ instance |-> instance, clients |-> clients ]

\* ---------------------------------------------------------------- actions
\* Transaction.getInstance(uri).createTransaction(dbName, operations) is invoked
\* with an operations array of the set `inputs`: runs to `await this.client.connect()`.
Invoke(c, inputs) ==
    /\ pc[c] = "idle"
    /\ IF c = 1 THEN TRUE ELSE pc[c - 1] # "idle"
    /\ \E db \in DbNames, ops \in inputs :
          /\ ItemsHanded(NumCalls) + NumItems(ops) <= MaxWrites
          /\ dbName' = [dbName EXCEPT ![c] = db]
          /\ operations' = [operations EXCEPT ![c] = ops]
    /\ \E uri \in Uris :
          /\ instance' = getInstance(uri).instance
          /\ clients' = getInstance(uri).clients
          /\ got' = [got EXCEPT ![c] = getInstance(uri).instance]
          /\ firstUri' = IF firstUri = Undefined THEN uri ELSE firstUri
    /\ made' = [made EXCEPT ![c].connect = @ + 1]
    /\ pc' = [pc EXCEPT ![c] = "connect"]
    /\ UNCHANGED << nextOp, session, error, result, sessionCount, txn, writes, staged,
                    visible, commitOn, abortOn, unsettledAtCommit, firstFailure, atReturn >>

\* createTransaction invoked with any operations array within the bounds.
CreateTransaction(c) == Invoke(c, SeqsUpTo(Operation, MaxOps))

\* createTransaction invoked as in the sample call of the source.
CreateTransactionSample(c) == Invoke(c, SampleOperations)

\* createTransaction invoked with operations whose tags need not be of the enum.
CreateTransactionUntyped(c) == Invoke(c, SeqsUpTo(UntypedOperation, MaxOps))

\* connect() rejects and is tried once more before the call gives up.
ConnectRejectsRetrying(c) ==
    /\ pc[c] = "connect"
    /\ IF made[c].connect < 2
       THEN /\ made' = [made EXCEPT ![c].connect = @ + 1]
            /\ UNCHANGED << pc, result, firstFailure, atReturn >>
       ELSE /\ pc' = [pc EXCEPT ![c] = "rejected"]
            /\ result' = [result EXCEPT ![c] = "ConnectError"]
            /\ firstFailure' = [firstFailure EXCEPT ![c] = First(@, "ConnectError")]
            /\ atReturn' = [atReturn EXCEPT ![c] = Snapshot(c, "none", visible)]
            /\ made' = made
    /\ UNCHANGED << dbName, operations, nextOp, session, error, sessionCount, txn, writes,
                    staged, visible, commitOn, abortOn, unsettledAtCommit,
                    instance, clients, got, firstUri >>

\* connect() rejects: line 70 is outside the try, the call rejects with that error.
ConnectRejects(c) ==
    /\ pc[c] = "connect"
    /\ pc' = [pc EXCEPT ![c] = "rejected"]
    /\ result' = [result EXCEPT ![c] = "ConnectError"]
    /\ firstFailure' = [firstFailure EXCEPT ![c] = First(@, "ConnectError")]
    /\ atReturn' = [atReturn EXCEPT ![c] = Snapshot(c, "none", visible)]
    /\ UNCHANGED << dbName, operations, nextOp, session, error, sessionCount, txn, writes,
                    staged, visible, commitOn, abortOn, unsettledAtCommit,
                    made, instance, clients, got, firstUri >>

\* connect() resolves: startSession(), startTransaction(), enter the try and the loop.
ConnectResolves(c) ==
    /\ pc[c] = "connect"
    /\ LET s == StartSession(sessionCount) IN
          /\ session' = [session EXCEPT ![c] = s]
          /\ txn' = [txn EXCEPT ![s] = "active"]
    /\ sessionCount' = sessionCount + 1
    /\ made' = [made EXCEPT ![c].startTransaction = @ + 1]
    /\ pc' = [pc EXCEPT ![c] = "loop"]
    /\ UNCHANGED << dbName, operations, nextOp, error, result, writes, staged, visible,
                    commitOn, abortOn, unsettledAtCommit, firstFailure, atReturn,
                    instance, clients, got, firstUri >>

\* connect() resolves and session.startTransaction() throws (line 72, outside the
\* try): the call rejects, its session stays open with no transaction.
StartTransactionThrows(c) ==
    /\ pc[c] = "connect"
    /\ session' = [session EXCEPT ![c] = StartSession(sessionCount)]
    /\ sessionCount' = sessionCount + 1
    /\ made' = [made EXCEPT ![c].startTransaction = @ + 1]
    /\ pc' = [pc EXCEPT ![c] = "rejected"]
    /\ result' = [result EXCEPT ![c] = "StartTransactionError"]
    /\ firstFailure' = [firstFailure EXCEPT ![c] = First(@, "StartTransactionError")]
    /\ atReturn' = [atReturn EXCEPT ![c] = Snapshot(c, "none", visible)]
    /\ UNCHANGED << dbName, operations, nextOp, error, txn, writes, staged, visible,
                    commitOn, abortOn, unsettledAtCommit,
                    instance, clients, got, firstUri >>

\* One iteration of the for-await loop: the switch calls create/update/delete, which
\* call the driver once per collector and return without awaiting anything.
Dispatch(c) ==
    /\ pc[c] = "loop"
    /\ nextOp[c] <= Len(operations[c])
    /\ writes' = [writes EXCEPT ![c] =
          @ \o Pending(Switch(dbName[c], operations[c][nextOp[c]], session[c]), nextOp[c])]
    /\ nextOp' = [nextOp EXCEPT ![c] = @ + 1]
    /\ UNCHANGED << pc, dbName, operations, session, error, result, sessionCount, txn,
                    staged, visible, commitOn, abortOn, unsettledAtCommit, firstFailure,
                    atReturn,
                    made, instance, clients, got, firstUri >>

\* The loop is over: `await session.commitTransaction()` (line 88).
CallCommit(c) ==
    /\ pc[c] = "loop"
    /\ nextOp[c] > Len(operations[c])
    /\ commitOn' = [commitOn EXCEPT ![c] = session[c]]
    /\ unsettledAtCommit' = [unsettledAtCommit EXCEPT ![c] = InFlight(c) \cup Failed(c)]
    /\ made' = [made EXCEPT ![c].commit = @ + 1]
    /\ pc' = [pc EXCEPT ![c] = "commit"]
    /\ UNCHANGED << dbName, operations, nextOp, session, error, result, sessionCount, txn,
                    writes, staged, visible, abortOn, firstFailure, atReturn,
                    instance, clients, got, firstUri >>

\* commitTransaction() resolves and abortTransaction() is still called, as from a
\* finally block.
CommitResolvesAborting(c) ==
    /\ pc[c] = "commit"
    /\ txn[commitOn[c]] = "active"
    /\ LET s == commitOn[c]
           vis == visible \cup staged[s] IN
          /\ visible' = vis
          /\ staged' = [staged EXCEPT ![s] = {}]
          /\ txn' = [txn EXCEPT ![s] = "committed"]
          /\ atReturn' = [atReturn EXCEPT ![c] = Snapshot(c, "committed", vis)]
    /\ made' = [made EXCEPT ![c].committed = @ + 1, ![c].abort = @ + 1]
    /\ abortOn' = [abortOn EXCEPT ![c] = session[c]]
    /\ pc' = [pc EXCEPT ![c] = "resolved"]
    /\ result' = [result EXCEPT ![c] = "resolved"]
    /\ UNCHANGED << dbName, operations, nextOp, session, error, sessionCount, writes,
                    commitOn, unsettledAtCommit, firstFailure,
                    instance, clients, got, firstUri >>

\* commitTransaction() resolves and the call commits once more before it returns.
CommitResolvesRetrying(c) ==
    /\ pc[c] = "commit"
    /\ txn[commitOn[c]] = "active"
    /\ made[c].committed = 0
    /\ LET s == commitOn[c] IN
          /\ visible' = visible \cup staged[s]
          /\ staged' = [staged EXCEPT ![s] = {}]
          /\ txn' = [txn EXCEPT ![s] = "committed"]
    /\ made' = [made EXCEPT ![c].committed = @ + 1, ![c].commit = @ + 1]
    /\ UNCHANGED << pc, dbName, operations, nextOp, session, error, result, sessionCount,
                    writes, commitOn, abortOn, unsettledAtCommit, firstFailure, atReturn,
                    instance, clients, got, firstUri >>

\* commitTransaction() resolves: the backend makes the staged writes of the session
\* durable, and the call resolves.
CommitResolves(c) ==
    /\ pc[c] = "commit"
    /\ txn[commitOn[c]] = "active"
    /\ LET s == commitOn[c]
           vis == visible \cup staged[s] IN
          /\ visible' = vis
          /\ staged' = [staged EXCEPT ![s] = {}]
          /\ txn' = [txn EXCEPT ![s] = "committed"]
          /\ atReturn' = [atReturn EXCEPT ![c] = Snapshot(c, "committed", vis)]
    /\ made' = [made EXCEPT ![c].committed = @ + 1]
    /\ pc' = [pc EXCEPT ![c] = "resolved"]
    /\ result' = [result EXCEPT ![c] = "resolved"]
    /\ UNCHANGED << dbName, operations, nextOp, session, error, sessionCount, writes,
                    commitOn, abortOn, unsettledAtCommit, firstFailure,
                    instance, clients, got, firstUri >>

\* commitTransaction() rejects and the call rejects at once, with no catch block.
CommitRejectsWithoutAbort(c) ==
    /\ pc[c] = "commit"
    /\ error' = [error EXCEPT ![c] = "CommitError"]
    /\ firstFailure' = [firstFailure EXCEPT ![c] = First(@, "CommitError")]
    /\ pc' = [pc EXCEPT ![c] = "rejected"]
    /\ result' = [result EXCEPT ![c] = "CommitError"]
    /\ atReturn' = [atReturn EXCEPT ![c] = Snapshot(c, txn[commitOn[c]], visible)]
    /\ UNCHANGED << dbName, operations, nextOp, session, sessionCount, txn, writes,
                    staged, visible, commitOn, abortOn, unsettledAtCommit,
                    made, instance, clients, got, firstUri >>

\* commitTransaction() rejects and the catch block never gets to return.
CommitRejectsHanging(c) ==
    /\ pc[c] = "commit"
    /\ error' = [error EXCEPT ![c] = "CommitError"]
    /\ firstFailure' = [firstFailure EXCEPT ![c] = First(@, "CommitError")]
    /\ pc' = [pc EXCEPT ![c] = "hung"]
    /\ UNCHANGED << dbName, operations, nextOp, session, result, sessionCount, txn, writes,
                    staged, visible, commitOn, abortOn, unsettledAtCommit, atReturn,
                    made, instance, clients, got, firstUri >>

\* commitTransaction() rejects: catch (error) runs `await session.abortTransaction()`.
CommitRejects(c) ==
    /\ pc[c] = "commit"
    /\ error' = [error EXCEPT ![c] = "CommitError"]
    /\ firstFailure' = [firstFailure EXCEPT ![c] = First(@, "CommitError")]
    /\ abortOn' = [abortOn EXCEPT ![c] = session[c]]
    /\ made' = [made EXCEPT ![c].abort = @ + 1]
    /\ pc' = [pc EXCEPT ![c] = "abort"]
    /\ UNCHANGED << dbName, operations, nextOp, session, result, sessionCount, txn, writes,
                    staged, visible, commitOn, unsettledAtCommit, atReturn,
                    instance, clients, got, firstUri >>

\* abortTransaction() resolves: the staged writes are discarded, `throw error`.
AbortResolves(c) ==
    /\ pc[c] = "abort"
    /\ LET s == abortOn[c] IN
          /\ txn' = [txn EXCEPT ![s] = "aborted"]
          /\ staged' = [staged EXCEPT ![s] = {}]
    /\ made' = [made EXCEPT ![c].aborted = @ + 1]
    /\ pc' = [pc EXCEPT ![c] = "rejected"]
    /\ result' = [result EXCEPT ![c] = error[c]]
    /\ atReturn' = [atReturn EXCEPT ![c] = Snapshot(c, "aborted", visible)]
    /\ UNCHANGED << dbName, operations, nextOp, session, error, sessionCount, writes,
                    visible, commitOn, abortOn, unsettledAtCommit, firstFailure,
                    instance, clients, got, firstUri >>

\* abortTransaction() rejects: the await of line 90 throws, line 91 is not reached
\* and the call rejects with the abort's error.
AbortRejects(c) ==
    /\ pc[c] = "abort"
    /\ pc' = [pc EXCEPT ![c] = "rejected"]
    /\ result' = [result EXCEPT ![c] = "AbortError"]
    /\ firstFailure' = [firstFailure EXCEPT ![c] = First(@, "AbortError")]
    /\ atReturn' = [atReturn EXCEPT ![c] = Snapshot(c, txn[abortOn[c]], visible)]
    /\ UNCHANGED << dbName, operations, nextOp, session, error, sessionCount, txn, writes,
                    staged, visible, commitOn, abortOn, unsettledAtCommit,
                    made, instance, clients, got, firstUri >>

\* The promise of an issued write resolves.  Inside the session's open transaction
\* the write is staged; once the transaction is over the driver sends it as a plain
\* write, which is durable at once.
WriteResolves(c) ==
    \E k \in InFlight(c) :
        /\ writes' = [writes EXCEPT ![c][k].status = "ok"]
        /\ LET s == writes[c][k].session IN
              IF txn[s] = "active"
              THEN /\ staged' = [staged EXCEPT ![s] = @ \cup {<< c, k >>}]
                   /\ visible' = visible
              ELSE /\ visible' = visible \cup {<< c, k >>}
                   /\ staged' = staged
        /\ UNCHANGED << pc, dbName, operations, nextOp, session, error, result,
                        sessionCount, txn, commitOn, abortOn, unsettledAtCommit,
                        firstFailure, atReturn, made, instance, clients, got, firstUri,
                    made, instance, clients, got, firstUri >>

\* The promise of an issued write rejects.  No handler is attached to it: the call
\* does not learn of it.  The transaction stays as it is (an error raised by the
\* driver before the server is reached).
WriteRejects(c) ==
    \E k \in InFlight(c) :
        /\ writes' = [writes EXCEPT ![c][k].status = "failed"]
        /\ firstFailure' = [firstFailure EXCEPT ![c] =
                               IF Returned(c) THEN @ ELSE First(@, "WriteError")]
        /\ UNCHANGED << pc, dbName, operations, nextOp, session, error, result,
                        sessionCount, txn, staged, visible, commitOn, abortOn,
                        unsettledAtCommit, atReturn,
                    made, instance, clients, got, firstUri >>

\* The promise of an issued write rejects with a server error that ends the
\* session's open transaction at the server.
WriteRejectsEndingTxn(c) ==
    \E k \in InFlight(c) :
        /\ txn[writes[c][k].session] = "active"
        /\ writes' = [writes EXCEPT ![c][k].status = "failed"]
        /\ txn' = [txn EXCEPT ![writes[c][k].session] = "aborted"]
        /\ staged' = [staged EXCEPT ![writes[c][k].session] = {}]
        /\ firstFailure' = [firstFailure EXCEPT ![c] =
                               IF Returned(c) THEN @ ELSE First(@, "WriteError")]
        /\ UNCHANGED << pc, dbName, operations, nextOp, session, error, result,
                        sessionCount, visible, commitOn, abortOn, unsettledAtCommit,
                        atReturn,
                    made, instance, clients, got, firstUri >>

Next ==
    \E c \in Calls :
        \/ CreateTransaction(c)
        \/ ConnectRejects(c)
        \/ ConnectResolves(c)
        \/ StartTransactionThrows(c)
        \/ Dispatch(c)
        \/ CallCommit(c)
        \/ CommitResolves(c)
        \/ CommitRejects(c)
        \/ AbortResolves(c)
        \/ AbortRejects(c)
        \/ WriteResolves(c)
        \/ WriteRejects(c)
        \/ WriteRejectsEndingTxn(c)

Spec == Init /\ [][Next]_vars

\* A single invocation of createTransaction, with any operations array.
NextOneCall ==
    \/ CreateTransaction(1)
    \/ ConnectRejects(1)
    \/ ConnectResolves(1)
    \/ StartTransactionThrows(1)
    \/ Dispatch(1)
    \/ CallCommit(1)
    \/ CommitResolves(1)
    \/ CommitRejects(1)
    \/ AbortResolves(1)
    \/ AbortRejects(1)
    \/ WriteResolves(1)
    \/ WriteRejects(1)
    \/ WriteRejectsEndingTxn(1)

SpecOneCall == Init /\ [][NextOneCall]_vars

\* A single invocation of createTransaction with operations of any tag.
NextUntyped ==
    \/ CreateTransactionUntyped(1)
    \/ ConnectRejects(1)
    \/ ConnectResolves(1)
    \/ StartTransactionThrows(1)
    \/ Dispatch(1)
    \/ CallCommit(1)
    \/ CommitResolves(1)
    \/ CommitRejects(1)
    \/ AbortResolves(1)
    \/ AbortRejects(1)
    \/ WriteResolves(1)
    \/ WriteRejects(1)
    \/ WriteRejectsEndingTxn(1)

SpecUntyped == Init /\ [][NextUntyped]_vars

\* The steps of call c that the event loop and a responding backend make happen:
\* the loop's iterations run on, and commitTransaction and abortTransaction settle.
Progress(c) ==
    \/ Dispatch(c)
    \/ CallCommit(c)
    \/ CommitResolves(c)
    \/ CommitRejects(c)
    \/ AbortResolves(c)
    \/ AbortRejects(c)

\* A single invocation whose awaited driver calls all get an answer.
FairOneCall == SpecOneCall /\ WF_vars(Progress(1))

\* Concurrent invocations of createTransaction, each as in the sample call.
NextSample ==
    \E c \in Calls :
        \/ CreateTransactionSample(c)
        \/ ConnectRejects(c)
        \/ ConnectResolves(c)
        \/ StartTransactionThrows(c)
        \/ Dispatch(c)
        \/ CallCommit(c)
        \/ CommitResolves(c)
        \/ CommitRejects(c)
        \/ AbortResolves(c)
        \/ AbortRejects(c)
        \/ WriteResolves(c)
        \/ WriteRejects(c)
        \/ WriteRejectsEndingTxn(c)

SpecSample == Init /\ [][NextSample]_vars


\* ------------------------------------------------------------------ claims
\* The write items of an operations array: (operation, collector) positions.
ItemsOf(ops) ==
    UNION { { << i, j >> : j \in 1..Len(ops[i].collectors) } : i \in 1..Len(ops) }

\* The write items of call c that a set of its writes covers.
ItemsCovered(c, ks) == { << writes[c][k].op, writes[c][k].col >> : k \in ks }

\* Position p comes before position q in list order.
Before(p, q) == p[1] < q[1] \/ (p[1] = q[1] /\ p[2] < q[2])

\* C1: when a call returns, the database holds either every write item of the call
\* committed or none of them, and every one of them if the call resolved.
C1_AllOrNothing ==
    \A c \in Calls :
        Returned(c) =>
            /\ ItemsCovered(c, atReturn[c].visible) \in { {}, ItemsOf(operations[c]) }
            /\ pc[c] = "resolved" =>
                  ItemsCovered(c, atReturn[c].visible) = ItemsOf(operations[c])

\* C2: once a call in which the backend rejected a write has finished, no write
\* item of that call is visible in the database.
C2_NothingVisibleAfterFailure ==
    \A c \in Calls :
        (Returned(c) /\ Failed(c) # {}) => VisibleOf(c) = {}

\* C3: commitTransaction is invoked only when every write the call issued has
\* resolved: none is in flight and none has failed.
C3_CommitAfterWrites ==
    \A c \in Calls : commitOn[c] # 0 => unsettledAtCommit[c] = {}

\* C4: a call one of whose writes was rejected before it returned has invoked
\* abortTransaction on its session and has rejected; it has not resolved.
C4_FailedWriteAborts ==
    \A c \in Calls :
        (Returned(c) /\ atReturn[c].failed # {}) =>
            /\ abortOn[c] # 0
            /\ abortOn[c] = session[c]
            /\ pc[c] = "rejected"

\* C5: a call that rejects does so with the first failure that occurred in it,
\* whatever abortTransaction did afterwards.
C5_OriginalCause ==
    \A c \in Calls : pc[c] = "rejected" => result[c] = firstFailure[c]

\* C6: no call returns leaving the transaction it started active: at the return
\* the transaction is committed or aborted (or was never started).
C6_Released ==
    \A c \in Calls :
        Returned(c) => atReturn[c].txn \in {"none", "committed", "aborted"}

\* C7: at every moment at most one write of a call is in flight.
C7_OneInFlight ==
    \A c \in Calls : Cardinality(InFlight(c)) <= 1

\* C8: the driver receives the writes of a call in list order: each write is the
\* one for the collector at its position, and a write issued earlier stands
\* earlier in the list (operations in array order, collectors in array order).
C8_ListOrder ==
    \A c \in Calls :
        /\ \A k \in 1..Len(writes[c]) :
              /\ << writes[c][k].op, writes[c][k].col >> \in ItemsOf(operations[c])
              /\ writes[c][k].collection =
                    operations[c][writes[c][k].op].collectors[writes[c][k].col].collectionName
        /\ \A k, l \in 1..Len(writes[c]) :
              k < l => Before(<< writes[c][k].op, writes[c][k].col >>,
                              << writes[c][l].op, writes[c][l].col >>)

\* A call has issued the writes of an operation with two different collectors.
C8_Witness ==
    \E c \in Calls :
        /\ Len(writes[c]) = 2
        /\ writes[c][1].op = writes[c][2].op
        /\ writes[c][1].collection # writes[c][2].collection
        /\ writes[c][1].kind = "updateOne"

\* C9: every call past connect has a session of its own, no two calls have the
\* same session, and every write, commit and abort of a call carries its session.
C9_OwnSession ==
    /\ \A c \in Calls :
          /\ pc[c] \in {"loop", "commit", "abort", "resolved"} => session[c] # 0
          /\ \A k \in 1..Len(writes[c]) : writes[c][k].session = session[c]
          /\ commitOn[c] \in {0, session[c]}
          /\ abortOn[c] \in {0, session[c]}
    /\ \A c, d \in Calls :
          (c # d /\ session[c] # 0 /\ session[d] # 0) => session[c] # session[d]

\* Two calls are under way at once, each with a write in flight, the later call
\* holding the earlier session, one of them committing and the other aborting.
C9_Witness ==
    \E c, d \in Calls :
        /\ c < d /\ session[d] < session[c]
        /\ InFlight(c) # {} /\ InFlight(d) # {}
        /\ pc[c] = "commit" /\ pc[d] = "abort"

\* C10: a call resolves only once commitTransaction has succeeded, and a call in
\* which connect, a write or commit failed before it returned has rejected.
C10_ResolvesOnlyOnCommit ==
    \A c \in Calls :
        /\ pc[c] = "resolved" => atReturn[c].txn = "committed"
        /\ (Returned(c) /\ firstFailure[c] # NoError) => pc[c] = "rejected"


\* The coordinator's transaction of call c has ended: its commitTransaction or its
\* abortTransaction has succeeded.
Ended(c) == made[c].committed >= 1 \/ made[c].aborted >= 1

\* C11: startTransaction and a successful commit happen at most once per call, a
\* call never has both a successful commit and a successful abort, and once its
\* commit or abort has succeeded the call issues no further write, commit or
\* abort and the transaction stays as it ended.
C11_Lifecycle ==
    /\ [](\A c \in Calls :
            /\ made[c].startTransaction <= 1
            /\ made[c].committed <= 1
            /\ ~(made[c].committed >= 1 /\ made[c].aborted >= 1))
    /\ [][\A c \in Calls :
            Ended(c) =>
                /\ Len(writes'[c]) = Len(writes[c])
                /\ made'[c] = made[c]
                /\ txn'[session[c]] = txn[session[c]]]_vars

\* A call has issued a write, failed to commit and aborted, its write still in flight.
C11_Witness ==
    \E c \in Calls :
        /\ made[c].startTransaction = 1 /\ made[c].commit = 1 /\ made[c].aborted = 1
        /\ InFlight(c) # {}
        /\ pc[c] = "rejected"

\* The collector's data lacks what its operation needs: Create without insert,
\* Update without index or without insert, Delete without index.
Malformed(type, data) ==
    \/ type = Create /\ data.insert = Undefined
    \/ type = Update /\ (data.index = Undefined \/ data.insert = Undefined)
    \/ type = Delete /\ data.index = Undefined

\* The positions of the malformed items of call c.
MalformedItems(c) ==
    { p \in ItemsOf(operations[c]) :
        Malformed(operations[c][p[1]].operationType,
                  operations[c][p[1]].collectors[p[2]].data) }

\* C12: no backend write is ever issued for a malformed item, and a call whose
\* loop came to a malformed item has, when it returns, aborted and rejected.
C12_MalformedRejected ==
    \A c \in Calls :
        /\ ItemsCovered(c, 1..Len(writes[c])) \cap MalformedItems(c) = {}
        /\ (Returned(c) /\ \E p \in MalformedItems(c) : p[1] < nextOp[c]) =>
              (pc[c] = "rejected" /\ made[c].abort >= 1)

\* C13: a call whose connect rejected has rejected with that error after a single
\* connect, with no session started and no write, commit or abort issued.
C13_ConnectFailure ==
    \A c \in Calls :
        /\ firstFailure[c] = "ConnectError" => result[c] = "ConnectError"
        /\ result[c] = "ConnectError" =>
              /\ pc[c] = "rejected"
              /\ made[c] = [NoCalls EXCEPT !.connect = 1]
              /\ session[c] = 0
              /\ writes[c] = << >>
              /\ commitOn[c] = 0 /\ abortOn[c] = 0

\* A call handed a write item has rejected because connect rejected.
C13_Witness ==
    \E c \in Calls : result[c] = "ConnectError" /\ operations[c] # << >>


\* C14: a call that has started its transaction, and whose commitTransaction and
\* abortTransaction get an answer, eventually returns.
C14_Terminates ==
    \A c \in Calls : (pc[c] \in {"loop", "commit", "abort"}) ~> Returned(c)

\* A call that started its transaction and issued two writes has returned.
C14_Witness ==
    \E c \in Calls :
        made[c].startTransaction = 1 /\ Len(writes[c]) = 2 /\ Returned(c)


\* C15: every getInstance call returned the same instance, one MongoClient was
\* constructed, and it has the URI of the first getInstance call.
C15_Singleton ==
    /\ Len(clients) <= 1
    /\ \A c \in Calls : got[c] # 0 => (got[c] = instance /\ Len(clients) = 1)
    /\ \A c, d \in Calls : (got[c] # 0 /\ got[d] # 0) => got[c] = got[d]
    /\ clients # << >> => clients = << firstUri >>

\* getInstance has been called once for every call, the first time with the URI b.
C15_Witness ==
    /\ \A c \in Calls : got[c] # 0
    /\ firstUri = "mongodb://b"

\* C16: a call with an empty operations list issues no write and invokes
\* abortTransaction only if its commit was rejected; when connect, startTransaction
\* and commitTransaction succeed it started one session and one transaction,
\* committed once, never invoked abortTransaction, and resolved.
C16_EmptyList ==
    \A c \in Calls :
        (pc[c] # "idle" /\ operations[c] = << >>) =>
            /\ writes[c] = << >>
            /\ made[c].abort >= 1 => error[c] = "CommitError"
            /\ (Returned(c) /\ firstFailure[c] = NoError) => pc[c] = "resolved"
            /\ pc[c] = "resolved" =>
                  /\ session[c] # 0
                  /\ made[c] = [ connect |-> 1, startTransaction |-> 1, commit |-> 1,
                                 committed |-> 1, abort |-> 0, aborted |-> 0 ]
                  /\ abortOn[c] = 0
                  /\ atReturn[c].txn = "committed"

\* A call with an empty operations list has resolved.
C16_Witness ==
    \E c \in Calls : operations[c] = << >> /\ pc[c] = "resolved"

\* The committed copies of document doc inserted into collection coll.
Copies(coll, doc) ==
    Cardinality({ w \in visible :
                    /\ writes[w[1]][w[2]].kind = "insertOne"
                    /\ writes[w[1]][w[2]].collection = coll
                    /\ writes[w[1]][w[2]].doc = doc })

\* The collectors of an operations array that insert doc into coll.
Inserts(ops, coll, doc) ==
    Cardinality({ p \in ItemsOf(ops) :
                    /\ ops[p[1]].operationType = Create
                    /\ ops[p[1]].collectors[p[2]].collectionName = coll
                    /\ Spread(ops[p[1]].collectors[p[2]].data.insert) = doc })

\* C17: when every call was made with the same Create operations, has resolved
\* (its commit succeeded) and has no write pending, the collection holds as many
\* copies of each inserted document as there were calls.
C17_Duplicates ==
    ( /\ \A c \in Calls : pc[c] = "resolved" /\ InFlight(c) = {}
      /\ \A c \in Calls : operations[c] = operations[1]
      /\ \A i \in 1..Len(operations[1]) : operations[1][i].operationType = Create )
    => \A p \in ItemsOf(operations[1]) :
          LET coll == operations[1][p[1]].collectors[p[2]].collectionName
              doc == Spread(operations[1][p[1]].collectors[p[2]].data.insert)
          IN Copies(coll, doc) = NumCalls * Inserts(operations[1], coll, doc)

\* The driver method an operation's tag stands for.
KindOf(type) ==
    CASE type = Create -> "insertOne"
      [] type = Update -> "updateOne"
      [] type = Delete -> "deleteOne"

\* C18: with tags of the enum, a call whose loop is over has issued exactly one
\* write per collector, none twice, and each write has the kind of its operation's
\* tag, the collector's collectionName in dbName, and the collector's insert and
\* index where its kind takes them.
C18_OneWritePerCollector ==
    \A c \in Calls :
        /\ made[c].commit >= 1 =>
              /\ Len(writes[c]) = NumItems(operations[c])
              /\ ItemsCovered(c, 1..Len(writes[c])) = ItemsOf(operations[c])
        /\ \A k \in 1..Len(writes[c]) :
              LET w == writes[c][k]
                  o == operations[c][w.op]
                  d == o.collectors[w.col].data
              IN /\ w.kind = KindOf(o.operationType)
                 /\ w.db = dbName[c]
                 /\ w.collection = o.collectors[w.col].collectionName
                 /\ (w.kind \in {"insertOne", "updateOne"} /\ d.insert # Undefined)
                       => w.doc = d.insert
                 /\ (w.kind \in {"updateOne", "deleteOne"} /\ d.index # Undefined)
                       => w.filter = d.index

\* A call whose loop is over has issued the two deleteOne of one Delete operation.
C18_Witness ==
    \E c \in Calls :
        /\ made[c].commit = 1
        /\ Len(writes[c]) = 2
        /\ writes[c][1].kind = "deleteOne" /\ writes[c][2].kind = "deleteOne"
        /\ writes[c][1].op = writes[c][2].op

\* C19: a call whose commitTransaction rejected has invoked abortTransaction, once
\* and on the session it tried to commit, and does not resolve; a call whose
\* commitTransaction succeeded has never invoked abortTransaction.
C19_CommitFailureAborts ==
    \A c \in Calls :
        /\ error[c] = "CommitError" =>
              /\ made[c].abort = 1
              /\ abortOn[c] = commitOn[c] /\ abortOn[c] = session[c]
              /\ pc[c] \in {"abort", "rejected"}
        /\ made[c].committed >= 1 => (made[c].abort = 0 /\ abortOn[c] = 0)

\* A call has rejected after its commit was rejected and its abort succeeded.
C19_Witness ==
    \E c \in Calls :
        error[c] = "CommitError" /\ made[c].aborted = 1 /\ pc[c] = "rejected"

\* The write items of the operations whose tag is of the enum.
TypedItemsOf(ops) == { p \in ItemsOf(ops) : ops[p[1]].operationType \in OperationType }

\* C20: no write is issued for an operation whose tag is none of the enum's and
\* the skip raises no error: the other operations are all dispatched, the call
\* goes on to commitTransaction, and abortTransaction is invoked only if that
\* commit was rejected.
C20_UnknownSkipped ==
    \A c \in Calls :
        /\ \A k \in 1..Len(writes[c]) :
              operations[c][writes[c][k].op].operationType \in OperationType
        /\ made[c].commit >= 1 =>
              ItemsCovered(c, 1..Len(writes[c])) = TypedItemsOf(operations[c])
        /\ pc[c] \in {"commit", "abort", "resolved"} => made[c].commit = 1
        /\ (Returned(c) /\ nextOp[c] > 1) => made[c].commit = 1
        /\ made[c].abort >= 1 => error[c] = "CommitError"
        /\ (Returned(c) /\ firstFailure[c] = NoError) => pc[c] = "resolved"

\* A call whose first operation has an unknown tag has issued the write of its
\* second operation only, and has resolved with that write committed.
C20_Witness ==
    \E c \in Calls :
        /\ Len(operations[c]) = 2
        /\ operations[c][1].operationType \notin OperationType
        /\ Len(writes[c]) = 1 /\ writes[c][1].op = 2
        /\ pc[c] = "resolved" /\ VisibleOf(c) = {1}

==========================================================================
